---- MODULE Spec2Model ----
(***************************************************************************)
(* Payment settlement and ledger engine of the SurveyEarn platform:        *)
(* registration collections (STK push) and their callbacks, referral       *)
(* commissions, the withdrawal state machine with its B2C disbursement     *)
(* callbacks, and the payment-status monitor.                              *)
(*                                                                         *)
(* Every database row is a record; a handler that reads rows into Python   *)
(* objects and writes them back later is split where the code leaves a gap *)
(* between the read and the write (no select_for_update anywhere), so that *)
(* a stale in-memory copy can be saved over a newer row.                   *)
(* Amounts are whole shillings; the commission rate is a percentage.       *)
(***************************************************************************)
EXTENDS Integers, Sequences, FiniteSets, TLC

\* ---------------------------------------------------------------- bounds
\* deliveries the gateway makes of the callback of one correlation id
MaxDeliveries == 2
\* requests that may be between their reads and their writes at once
MaxInflight == 2
\* withdrawal requests created in one behaviour
MaxWithdrawals == 2
\* completed survey responses paid out in one behaviour
MaxResponses == 2
\* runs of the commission settlement / reversal jobs in one behaviour
MaxJobs == 2
\* disbursement requests sent to the gateway in one behaviour
MaxDisbursements == 2

\* ------------------------------------------------------ program constants
REGISTRATION_FEE == 500
MIN_WITHDRAWAL == 30
MAX_WITHDRAWAL == 50000
WITHDRAWAL_FEE_PERCENTAGE == 2
MIN_WITHDRAWAL_FEE == 1
max_attempts == 40

None == "none"
\* Y is an established account that refers; X1 and X2 register with its code
Referrer == "Y"
Registrants == {"X1", "X2"}
Users == {Referrer} \cup Registrants
\* the registrant whose payment page holds the status websocket
MonitoredUser == "X1"
\* referral_commission_rate values an operator may set, in percent
Rates == {10, 25}
\* payout of the survey a response answers, and the amounts users ask to withdraw
SurveyPayouts == {60}
WithdrawalAmounts == {100}
\* amounts a user may ask for: below the minimum, not covered with the fee by
\* one survey payout, regular, above the maximum
RequestedAmounts == {20, 60, 100, 60000}

VARIABLES
    users,          \* accounts_user rows
    transactions,   \* payments_transaction rows (the ledger), in insertion order
    mpesa,          \* payments_mpesatransaction rows, in insertion order
    commissions,    \* accounts_referralcommission rows, in insertion order
    withdrawals,    \* payments_withdrawalrequest rows, in insertion order
    settings,       \* SystemSettings values read through SettingsService
    inflight,       \* requests between their reads and their writes
    gateway,        \* the gateway's side: outcome and deliveries per correlation id
    responses,      \* completed survey responses handed to the payment service
    jobs,           \* number of operator job runs so far
    monitor,        \* the PaymentStatusConsumer opened for MonitoredUser
    events,         \* the messages published to the groups of the channel layer
    cache           \* the entry system_setting_referral_commission_rate: {} or {value}

vars == <<users, transactions, mpesa, commissions, withdrawals, settings,
          inflight, gateway, responses, jobs, monitor, events, cache>>

Slots == 1..MaxInflight
WithdrawalIds == 1..MaxWithdrawals
\* what the gateway decided for a correlation id and how often it reported
NoTraffic == [outcome |-> "undecided", delivered |-> 0]
\* the same for a disbursement, with the HTTP status the handlers answered to the
\* last notification (0: none answered yet)
NoDisbursementTraffic == [outcome |-> "undecided", delivered |-> 0, status_code |-> 0]
Idle == [h |-> "idle"]

\* ----------------------------------------------------------------- rows
\* accounts.User (the fields the engine reads or writes)
NewUser == [registered |-> FALSE, balance |-> 0, referral_earnings |-> 0,
            is_staff |-> FALSE, registration_paid |-> FALSE, is_active |-> FALSE,
            referred_by |-> None, mpesa_checkout_request_id |-> None,
            registration_amount |-> 0]

\* payments.Transaction
Transaction(u, type, amount, status, ref, before, after) ==
    [user |-> u, transaction_type |-> type, amount |-> amount, status |-> status,
     reference_id |-> ref, balance_before |-> before, balance_after |-> after]

\* payments.MPesaTransaction; key is checkout_request_id (stk_push) or
\* conversation_id (b2c); withdrawal_request is 0 for none
MPesaTransaction(u, type, key, w, status) ==
    [user |-> u, transaction_type |-> type, key |-> key,
     withdrawal_request |-> w, status |-> status]

\* accounts.ReferralCommission
ReferralCommission(referrer, referred, amount, type) ==
    [referrer |-> referrer, referred_user |-> referred, commission_amount |-> amount,
     commission_type |-> type, processed |-> FALSE]

\* payments.WithdrawalRequest
WithdrawalRequest(u, amount) ==
    [user |-> u, amount |-> amount, status |-> "pending"]

\* --------------------------------------------------------------- helpers
RECURSIVE SumAmounts(_, _)
SumAmounts(rows, u) ==
    IF rows = <<>> THEN 0
    ELSE (IF Head(rows).user = u THEN Head(rows).amount ELSE 0)
         + SumAmounts(Tail(rows), u)

FreeSlot(s) == inflight[s] = Idle /\ \A t \in Slots : t < s => inflight[t] # Idle

\* the id the gateway issues for a registrant's STK push
CheckoutRequestID(u) == u

\* ------------------------------------------------------------- settings
get_referral_commission_rate == settings.referral_commission_rate
auto_approve_referral_commissions == settings.auto_approve_referral_commissions
get_registration_fee == REGISTRATION_FEE

\* Decimal product registration_fee * commission_rate
CommissionAmount(source, rate) == (source * rate) \div 100

Init ==
    /\ users = [u \in Users |->
                  IF u = Referrer
                  THEN [NewUser EXCEPT !.registered = TRUE, !.registration_paid = TRUE,
                                       !.is_active = TRUE]
                  ELSE NewUser]
    /\ transactions = <<>>
    /\ mpesa = <<>>
    /\ commissions = <<>>
    /\ withdrawals = <<>>
    /\ settings = [referral_commission_rate |-> 25,
                   auto_approve_referral_commissions |-> TRUE]
    /\ inflight = [s \in Slots |-> Idle]
    /\ gateway = [stk |-> [u \in Registrants |-> NoTraffic],
                  b2c |-> [w \in WithdrawalIds |-> NoDisbursementTraffic]]
    /\ responses = 0
    /\ jobs = 0
    /\ monitor = [pc |-> "idle", attempt |-> 0, debug |-> TRUE]
    /\ events = {}
    /\ cache = {}

\* ------------------------------------------------- registration (STK push)
\* accounts.views.user_register, the branch where the STK push is accepted:
\* the user row is created inactive, linked to its referrer, given the checkout
\* id, and a pending registration Transaction and MPesaTransaction are written
user_register(u, ref) ==
    /\ ~users[u].registered
    /\ users' = [users EXCEPT ![u] =
                    [@ EXCEPT !.registered = TRUE, !.referred_by = ref,
                              !.mpesa_checkout_request_id = CheckoutRequestID(u),
                              !.registration_amount = get_registration_fee]]
    /\ transactions' = Append(transactions,
            Transaction(u, "registration", get_registration_fee, "pending",
                        CheckoutRequestID(u), 0, 0))
    /\ mpesa' = Append(mpesa,
            MPesaTransaction(u, "stk_push", CheckoutRequestID(u), 0, "pending"))
    /\ UNCHANGED <<commissions, withdrawals, settings, inflight, gateway,
                   responses, jobs, monitor, events, cache>>

\* ------------------------------------------------------ commission engine
\* faulty variant of the duplicate check: only unsettled commissions count
ExistingRegistrationCommission_PendingOnly(cms, referrer, u) ==
    \E i \in DOMAIN cms : /\ cms[i].referrer = referrer
                          /\ cms[i].referred_user = u
                          /\ cms[i].commission_type = "registration"
                          /\ ~cms[i].processed

\* the duplicate check both the callback and the service make
ExistingRegistrationCommission(cms, referrer, u) ==
    \E i \in DOMAIN cms : /\ cms[i].referrer = referrer
                          /\ cms[i].referred_user = u
                          /\ cms[i].commission_type = "registration"

\* faulty variant of create_registration_commission: the staff test is missing
create_registration_commission_NoStaffTest(us, cms, u) ==
    LET ref == us[u].referred_by
        amount == CommissionAmount(us[u].registration_amount, get_referral_commission_rate)
    IN IF ref = None
       THEN [users |-> us, commissions |-> cms, commission |-> FALSE]
       ELSE IF ExistingRegistrationCommission(cms, ref, u)
       THEN [users |-> us, commissions |-> cms, commission |-> TRUE]
       ELSE [users |-> [us EXCEPT ![ref].referral_earnings = @ + amount],
             commissions |-> Append(cms, ReferralCommission(ref, u, amount, "registration")),
             commission |-> TRUE]

\* ReferralService.create_registration_commission; the result says whether a
\* commission object came back (None when there is no referrer or it is staff)
create_registration_commission(us, cms, u) ==
    LET ref == us[u].referred_by
        amount == CommissionAmount(us[u].registration_amount, get_referral_commission_rate)
    IN IF ref = None \/ us[ref].is_staff
       THEN [users |-> us, commissions |-> cms, commission |-> FALSE]
       ELSE IF ExistingRegistrationCommission(cms, ref, u)
       THEN [users |-> us, commissions |-> cms, commission |-> TRUE]
       ELSE [users |-> [us EXCEPT ![ref].referral_earnings = @ + amount],
             commissions |-> Append(cms, ReferralCommission(ref, u, amount, "registration")),
             commission |-> TRUE]

\* ReferralService.create_survey_commission
create_survey_commission(us, cms, u, survey_payout) ==
    LET ref == us[u].referred_by
        amount == CommissionAmount(survey_payout, get_referral_commission_rate)
    IN IF ref = None \/ us[ref].is_staff
       THEN [users |-> us, commissions |-> cms, commission |-> FALSE]
       ELSE [users |-> [us EXCEPT ![ref].referral_earnings = @ + amount],
             commissions |-> Append(cms, ReferralCommission(ref, u, amount, "survey")),
             commission |-> TRUE]

\* faulty variant of the settlement: the amount is computed anew from the rate
\* now in force
SettleCommission_CurrentRate(st, i, c) ==
    LET ref == c.referrer
        amount == CommissionAmount(get_registration_fee, get_referral_commission_rate)
        bal == st.users[ref].balance + amount
    IN [users |-> [st.users EXCEPT ![ref].balance = bal],
        commissions |-> [st.commissions EXCEPT ![i] = [c EXCEPT !.processed = TRUE]],
        transactions |-> Append(st.transactions,
            Transaction(ref, "referral_commission", amount, "pending", None, 0, bal))]

\* one turn of the loop of process_pending_commissions on the commission object c
\* read earlier as row i: the referrer is loaded now, credited and saved, the
\* commission object is saved as processed and a Transaction is inserted
SettleCommission(st, i, c) ==
    LET ref == c.referrer
        bal == st.users[ref].balance + c.commission_amount
    IN [users |-> [st.users EXCEPT ![ref].balance = bal],
        commissions |-> [st.commissions EXCEPT ![i] = [c EXCEPT !.processed = TRUE]],
        transactions |-> Append(st.transactions,
            Transaction(ref, "referral_commission", c.commission_amount, "pending",
                        None, 0, bal))]

\* the loop over a queryset already evaluated to the rows todo (newest first)
RECURSIVE SettleAll(_, _)
SettleAll(st, todo) ==
    IF todo = <<>> THEN st
    ELSE SettleAll(SettleCommission(st, Head(todo), st.commissions[Head(todo)]), Tail(todo))

\* ReferralCommission.objects.filter(processed=False[, referrer=...]) in the
\* model's ordering -created_at; referrer None selects every referrer
RECURSIVE PendingFrom(_, _, _)
PendingFrom(cms, referrer, i) ==
    IF i = 0 THEN <<>>
    ELSE IF ~cms[i].processed /\ (referrer = None \/ cms[i].referrer = referrer)
         THEN <<i>> \o PendingFrom(cms, referrer, i - 1)
         ELSE PendingFrom(cms, referrer, i - 1)

PendingCommissions(cms, referrer) == PendingFrom(cms, referrer, Len(cms))

\* ReferralService.process_pending_commissions run inside one transaction
process_pending_commissions(st, referrer) ==
    SettleAll(st, PendingCommissions(st.commissions, referrer))

\* the commission step of accounts.views.mpesa_callback
CallbackCommissionStep(us, cms, txs, u) ==
    LET ref == us[u].referred_by
        same == [users |-> us, commissions |-> cms, transactions |-> txs]
        made == create_registration_commission(us, cms, u)
        st == [users |-> made.users, commissions |-> made.commissions,
               transactions |-> txs]
    IN IF ref = None THEN same
       ELSE IF us[ref].is_staff THEN same
       ELSE IF ExistingRegistrationCommission(cms, ref, u) THEN same
       ELSE IF ~made.commission THEN same
       ELSE IF auto_approve_referral_commissions
            THEN process_pending_commissions(st, ref)
            ELSE st

\* ------------------------------------------------ STK callback (accounts)
\* Transaction.objects.get(user, 'registration', reference_id, status='pending')
PendingRegistration(txs, u, ref) ==
    {i \in DOMAIN txs : /\ txs[i].user = u
                        /\ txs[i].transaction_type = "registration"
                        /\ txs[i].reference_id = ref
                        /\ txs[i].status = "pending"}

\* the registration-transaction step of the success branch: the one pending row
\* becomes completed; with none, a new completed row is inserted
CompleteRegistration(txs, u, ref, amount) ==
    LET found == PendingRegistration(txs, u, ref)
    IN IF Cardinality(found) = 1
       THEN [txs EXCEPT ![CHOOSE i \in found : TRUE].status = "completed"]
       ELSE IF found = {}
       THEN Append(txs, Transaction(u, "registration", amount, "completed", ref, 0, 0))
       ELSE txs

FailRegistration(txs, u, ref) ==
    LET found == PendingRegistration(txs, u, ref)
    IN IF Cardinality(found) = 1
       THEN [txs EXCEPT ![CHOOSE i \in found : TRUE].status = "failed"]
       ELSE txs

\* MPesaTransaction.objects.get(checkout_request_id=...) set to a status and saved
SetMpesaStatus(rows, type, key, status) ==
    [i \in DOMAIN rows |->
        IF rows[i].transaction_type = type /\ rows[i].key = key
        THEN [rows[i] EXCEPT !.status = status] ELSE rows[i]]

\* the gateway posts the result of a collection; the handler parses it and loads
\* the user by checkout id, outside any transaction
mpesa_callback_receive(s, u, result) ==
    /\ FreeSlot(s)
    /\ users[u].mpesa_checkout_request_id = CheckoutRequestID(u)
    /\ gateway.stk[u].delivered < MaxDeliveries
    /\ gateway.stk[u].outcome \in {"undecided", result}
    /\ gateway' = [gateway EXCEPT !.stk[u] =
                      [outcome |-> result, delivered |-> @.delivered + 1]]
    /\ inflight' = [inflight EXCEPT ![s] =
                      [h |-> "mpesa_callback", user |-> u, result |-> result,
                       row |-> users[u]]]
    /\ UNCHANGED <<users, transactions, mpesa, commissions, withdrawals, settings,
                   responses, jobs, monitor, events, cache>>

\* ResultCode 0: the atomic block. Its first statement, user.save(), locks the
\* user's row until commit, so the blocks of two deliveries for one user run one
\* after the other; user.save() writes every column of the object loaded above
\* channel_layer.group_send(group_name, {'type': ..., 'data': {'status': ...}})
\* with a channel layer configured (the handlers skip the call without one).
group_send(evs, prefix, u, type, status) ==
    evs \cup {[group |-> <<prefix, u>>, type |-> type, status |-> status]}

mpesa_callback_success(s) ==
    LET r == inflight[s]
        u == r.user
        cid == CheckoutRequestID(u)
        row == [r.row EXCEPT !.registration_paid = TRUE, !.is_active = TRUE]
        us == [users EXCEPT ![u] = row]
        txs == CompleteRegistration(transactions, u, cid, row.registration_amount)
        st == CallbackCommissionStep(us, commissions, txs, u)
    IN /\ r.h = "mpesa_callback"
       /\ r.result = "success"
       /\ users' = st.users
       /\ commissions' = st.commissions
       /\ transactions' = st.transactions
       /\ mpesa' = SetMpesaStatus(mpesa, "stk_push", cid, "completed")
       /\ inflight' = [inflight EXCEPT ![s] = Idle]
       /\ events' = group_send(events, "payment", u, "payment_update", "success")
       /\ UNCHANGED <<withdrawals, settings, gateway, responses, jobs, monitor,
                      cache>>

\* any other ResultCode: the pending registration Transaction is marked failed;
\* neither the user nor the MPesaTransaction is touched
mpesa_callback_failed(s) ==
    LET r == inflight[s]
    IN /\ r.h = "mpesa_callback"
       /\ r.result = "failed"
       /\ transactions' = FailRegistration(transactions, r.user, CheckoutRequestID(r.user))
       /\ inflight' = [inflight EXCEPT ![s] = Idle]
       /\ events' = group_send(events, "payment", r.user, "payment_update", "failed")
       /\ UNCHANGED <<users, mpesa, commissions, withdrawals, settings, gateway,
                      responses, jobs, monitor, cache>>

\* ------------------------------------------------ STK callback (payments)
\* the MpesaReceiptNumber item of a successful callback
MpesaReceiptNumber == [u \in Registrants |-> IF u = "X1" THEN "RCPT1" ELSE "RCPT2"]

\* payments.views.mpesa_callback, keyed by the MPesaTransaction of the checkout
\* id: the intent takes the reported status whatever it was; on success the
\* pending registration Transaction is completed (the newest of several) or,
\* with none, a completed one is inserted under the receipt number, and the user
\* is marked paid; its commission import fails and is swallowed. On failure the
\* pending Transaction is marked failed; several pending rows abort the handler
payments_mpesa_callback(u, result) ==
    LET cid == CheckoutRequestID(u)
        found == PendingRegistration(transactions, u, cid)
        latest == CHOOSE i \in found : \A j \in found : j <= i
    IN /\ \E m \in DOMAIN mpesa :
             mpesa[m].transaction_type = "stk_push" /\ mpesa[m].key = cid
       /\ gateway.stk[u].delivered < MaxDeliveries
       /\ gateway.stk[u].outcome \in {"undecided", result}
       /\ gateway' = [gateway EXCEPT !.stk[u] =
                         [outcome |-> result, delivered |-> @.delivered + 1]]
       /\ IF result = "success"
          THEN /\ transactions' =
                      IF found = {}
                      THEN Append(transactions,
                               Transaction(u, "registration", get_registration_fee,
                                           "completed", MpesaReceiptNumber[u], 0, 0))
                      ELSE [transactions EXCEPT ![latest].status = "completed"]
               /\ users' = [users EXCEPT ![u].registration_paid = TRUE,
                                         ![u].is_active = TRUE]
               /\ mpesa' = SetMpesaStatus(mpesa, "stk_push", cid, "completed")
          ELSE /\ transactions' = FailRegistration(transactions, u, cid)
               /\ mpesa' = IF Cardinality(found) > 1 THEN mpesa
                           ELSE SetMpesaStatus(mpesa, "stk_push", cid, "failed")
               /\ UNCHANGED users
       /\ events' = IF result = "failed" /\ Cardinality(found) > 1
                    THEN events
                    ELSE group_send(events, "user", u, "payment_status_update",
                                    IF result = "success" THEN "completed"
                                    ELSE "failed")
       /\ UNCHANGED <<commissions, withdrawals, settings, inflight, responses, jobs,
                      monitor, cache>>

\* --------------------------------------------------- payment status poll
\* accounts.views.check_payment_status for an account not yet paid and active:
\* the gateway is asked for the state of the checkout id and answers query (a
\* pending answer changes nothing). On success the user is marked paid and
\* active and saved; the registration Transaction, the MPesaTransaction and the
\* commissions are not touched
check_payment_status(u, query) ==
    /\ users[u].registered
    /\ users[u].mpesa_checkout_request_id = CheckoutRequestID(u)
    /\ ~(users[u].registration_paid /\ users[u].is_active)
    /\ gateway.stk[u].outcome \in {"undecided", query}
    /\ gateway' = [gateway EXCEPT !.stk[u].outcome = query]
    /\ users' = IF query = "success"
                THEN [users EXCEPT ![u].registration_paid = TRUE,
                                   ![u].is_active = TRUE]
                ELSE users
    /\ UNCHANGED <<transactions, mpesa, commissions, withdrawals, settings, inflight,
                   responses, jobs, monitor, events, cache>>

\* ------------------------------------------------------- operator actions
\* SettingsService.set_setting('referral_commission_rate' / 'auto_approve_...')
set_setting(rate, auto) ==
    /\ settings # [referral_commission_rate |-> rate,
                   auto_approve_referral_commissions |-> auto]
    /\ settings' = [referral_commission_rate |-> rate,
                    auto_approve_referral_commissions |-> auto]
    /\ cache' = {}
    /\ UNCHANGED <<users, transactions, mpesa, commissions, withdrawals, inflight,
                   gateway, responses, jobs, monitor, events>>

\* SettingsService.set_setting('referral_commission_rate', rate), statement by
\* statement: setting.save() commits the new value (autocommit), the audit log
\* row is inserted, and only then the cache entry is deleted
set_setting_save(s, rate) ==
    /\ FreeSlot(s)
    /\ \A t \in Slots : inflight[t].h # "set_setting"
    /\ rate # settings.referral_commission_rate
    /\ settings' = [settings EXCEPT !.referral_commission_rate = rate]
    /\ inflight' = [inflight EXCEPT ![s] = [h |-> "set_setting", pc |-> "saved"]]
    /\ UNCHANGED <<users, transactions, mpesa, commissions, withdrawals, gateway,
                   responses, jobs, monitor, events, cache>>

\* cache.delete(cache_key), the last statement of set_setting
set_setting_cache_delete(s) ==
    /\ inflight[s].h = "set_setting"
    /\ cache' = {}
    /\ inflight' = [inflight EXCEPT ![s] = Idle]
    /\ UNCHANGED <<users, transactions, mpesa, commissions, withdrawals, settings,
                   gateway, responses, jobs, monitor, events>>

\* SettingsService.get_setting('referral_commission_rate'): cache.get; a hit is
\* the value returned, a miss goes on to the database
get_setting_cache_get(s) ==
    /\ FreeSlot(s)
    /\ inflight' = [inflight EXCEPT ![s] =
                       IF cache # {}
                       THEN [h |-> "get_setting", pc |-> "return", value |-> cache]
                       ELSE [h |-> "get_setting", pc |-> "miss", value |-> {}]]
    /\ UNCHANGED <<users, transactions, mpesa, commissions, withdrawals, settings,
                   gateway, responses, jobs, monitor, events, cache>>

\* SystemSettings.objects.get(setting_key=key, is_active=True).get_value()
get_setting_db_read(s) ==
    /\ inflight[s].h = "get_setting"
    /\ inflight[s].pc = "miss"
    /\ inflight' = [inflight EXCEPT ![s] =
                       [h |-> "get_setting", pc |-> "read",
                        value |-> {settings.referral_commission_rate}]]
    /\ UNCHANGED <<users, transactions, mpesa, commissions, withdrawals, settings,
                   gateway, responses, jobs, monitor, events, cache>>

\* cache.set(cache_key, value, CACHE_TIMEOUT) with the value read
get_setting_cache_set(s) ==
    /\ inflight[s].h = "get_setting"
    /\ inflight[s].pc = "read"
    /\ cache' = inflight[s].value
    /\ inflight' = [inflight EXCEPT ![s].pc = "return"]
    /\ UNCHANGED <<users, transactions, mpesa, commissions, withdrawals, settings,
                   gateway, responses, jobs, monitor, events>>

\* get_setting returns its value to the caller
get_setting_return(s) ==
    /\ inflight[s].h = "get_setting"
    /\ inflight[s].pc = "return"
    /\ inflight' = [inflight EXCEPT ![s] = Idle]
    /\ UNCHANGED <<users, transactions, mpesa, commissions, withdrawals, settings,
                   gateway, responses, jobs, monitor, events, cache>>

\* the cache drops the entry CACHE_TIMEOUT (300 s) after it was set
cache_timeout ==
    /\ cache # {}
    /\ cache' = {}
    /\ UNCHANGED <<users, transactions, mpesa, commissions, withdrawals, settings,
                   inflight, gateway, responses, jobs, monitor, events>>

\* an account is given staff rights (the is_staff column of the user model)
grant_staff(u) ==
    /\ users[u].registered
    /\ ~users[u].is_staff
    /\ users' = [users EXCEPT ![u].is_staff = TRUE]
    /\ UNCHANGED <<transactions, mpesa, commissions, withdrawals, settings, inflight,
                   gateway, responses, jobs, monitor, events, cache>>

\* ---------------------------------------------------------- survey payment
\* SurveyPaymentService.process_survey_completion_payment for a response just
\* marked completed (surveys.views): a completed survey_payment Transaction is
\* inserted and the user's balance raised by the survey's payout
process_survey_completion_payment(u, payout) ==
    LET current_balance == users[u].balance
        new_balance == current_balance + payout
    IN /\ responses < MaxResponses
       /\ users[u].registered
       /\ payout > 0
       /\ responses' = responses + 1
       /\ transactions' = Append(transactions,
              Transaction(u, "survey_payment", payout, "completed", None,
                          current_balance, new_balance))
       /\ users' = [users EXCEPT ![u].balance = new_balance]
       /\ UNCHANGED <<mpesa, commissions, withdrawals, settings, inflight, gateway,
                      jobs, monitor, events, cache>>

\* the completed survey_payment Transactions written for response r
existing_payment(txs, u, r) ==
    {i \in DOMAIN txs : /\ txs[i].user = u
                        /\ txs[i].transaction_type = "survey_payment"
                        /\ txs[i].reference_id = r
                        /\ txs[i].status = "completed"}

\* process_survey_completion_payment called for the completed response r of u,
\* up to its first write: the user is loaded and the ledger is searched for a
\* completed payment of r, without a lock; with one found the call answers
\* success=False
process_survey_completion_payment_check(s, u, r, payout) ==
    /\ FreeSlot(s)
    /\ users[u].registered
    /\ payout > 0
    /\ inflight' = [inflight EXCEPT ![s] =
                       [h |-> "process_survey_completion_payment",
                        pc |-> IF existing_payment(transactions, u, r) = {}
                               THEN "checked" ELSE "refused",
                        user |-> u, response |-> r, payout |-> payout,
                        row |-> users[u]]]
    /\ UNCHANGED <<users, transactions, mpesa, commissions, withdrawals, settings,
                   gateway, responses, jobs, monitor, events, cache>>

\* the writes of the atomic block and its commit: the completed survey_payment
\* Transaction is inserted and balance is saved from the user loaded at the
\* start
process_survey_completion_payment_commit(s) ==
    LET r == inflight[s]
        current_balance == r.row.balance
        new_balance == current_balance + r.payout
    IN /\ r.h = "process_survey_completion_payment"
       /\ r.pc = "checked"
       /\ transactions' = Append(transactions,
              Transaction(r.user, "survey_payment", r.payout, "completed", r.response,
                          current_balance, new_balance))
       /\ users' = [users EXCEPT ![r.user].balance = new_balance]
       /\ inflight' = [inflight EXCEPT ![s] = Idle]
       /\ UNCHANGED <<mpesa, commissions, withdrawals, settings, gateway, responses,
                      jobs, monitor, events, cache>>

\* the answer success=False, 'User already paid for this survey'
process_survey_completion_payment_refuse(s) ==
    /\ inflight[s].h = "process_survey_completion_payment"
    /\ inflight[s].pc = "refused"
    /\ inflight' = [inflight EXCEPT ![s] = Idle]
    /\ UNCHANGED <<users, transactions, mpesa, commissions, withdrawals, settings,
                   gateway, responses, jobs, monitor, events, cache>>

\* ------------------------------------------------------------ withdrawals
\* fee = max(amount * WITHDRAWAL_FEE_PERCENTAGE, MIN_WITHDRAWAL_FEE)
WithdrawalFee(amount) ==
    LET pct == (amount * WITHDRAWAL_FEE_PERCENTAGE) \div 100
    IN IF pct > MIN_WITHDRAWAL_FEE THEN pct ELSE MIN_WITHDRAWAL_FEE

\* faulty variant of the validation: the fee is not counted
create_withdrawal_request_NoFee(u, amount) ==
    /\ Len(withdrawals) < MaxWithdrawals
    /\ users[u].registered
    /\ amount >= MIN_WITHDRAWAL
    /\ amount <= MAX_WITHDRAWAL
    /\ users[u].balance >= amount
    /\ withdrawals' = Append(withdrawals, WithdrawalRequest(u, amount))
    /\ UNCHANGED <<users, transactions, mpesa, commissions, settings, inflight,
                   gateway, responses, jobs, monitor, events, cache>>

\* WithdrawalService.create_withdrawal_request, reached from request_withdrawal
create_withdrawal_request(u, amount) ==
    /\ Len(withdrawals) < MaxWithdrawals
    /\ users[u].registered
    /\ amount >= MIN_WITHDRAWAL
    /\ amount <= MAX_WITHDRAWAL
    /\ users[u].balance >= amount
    /\ users[u].balance >= amount + WithdrawalFee(amount)
    /\ withdrawals' = Append(withdrawals, WithdrawalRequest(u, amount))
    /\ UNCHANGED <<users, transactions, mpesa, commissions, settings, inflight,
                   gateway, responses, jobs, monitor, events, cache>>

\* payments.views.cancel_withdrawal
cancel_withdrawal(w) ==
    /\ w \in DOMAIN withdrawals
    /\ withdrawals[w].status = "pending"
    /\ withdrawals' = [withdrawals EXCEPT ![w].status = "cancelled"]
    /\ UNCHANGED <<users, transactions, mpesa, commissions, settings, inflight,
                   gateway, responses, jobs, monitor, events, cache>>

\* WithdrawalService.reject_withdrawal
reject_withdrawal(w) ==
    /\ w \in DOMAIN withdrawals
    /\ withdrawals[w].status = "pending"
    /\ withdrawals' = [withdrawals EXCEPT ![w].status = "rejected"]
    /\ UNCHANGED <<users, transactions, mpesa, commissions, settings, inflight,
                   gateway, responses, jobs, monitor, events, cache>>

\* WithdrawalRequest.can_be_processed (the later of the two definitions)
can_be_processed(w) == users[withdrawals[w].user].balance >= withdrawals[w].amount

\* approve_withdrawal up to the atomic block: the status check on the request
\* object and can_be_processed, which loads the user object the block will save
approve_withdrawal_check(s, w) ==
    /\ FreeSlot(s)
    /\ w \in DOMAIN withdrawals
    /\ withdrawals[w].status = "pending"
    /\ can_be_processed(w)
    /\ inflight' = [inflight EXCEPT ![s] =
                      [h |-> "approve_withdrawal", w |-> w,
                       withdrawal |-> withdrawals[w],
                       row |-> users[withdrawals[w].user]]]
    /\ UNCHANGED <<users, transactions, mpesa, commissions, withdrawals, settings,
                   gateway, responses, jobs, monitor, events, cache>>

\* the atomic block of approve_withdrawal: both objects are saved whole and the
\* debit is recorded
approve_withdrawal(s) ==
    LET r == inflight[s]
        u == r.withdrawal.user
        balance_before == r.row.balance
        balance_after == balance_before - r.withdrawal.amount
    IN /\ r.h = "approve_withdrawal"
       /\ withdrawals' = [withdrawals EXCEPT ![r.w] =
                             [r.withdrawal EXCEPT !.status = "approved"]]
       /\ users' = [users EXCEPT ![u] = [r.row EXCEPT !.balance = balance_after]]
       /\ transactions' = Append(transactions,
              Transaction(u, "withdrawal", 0 - r.withdrawal.amount, "pending", None,
                          balance_before, balance_after))
       /\ inflight' = [inflight EXCEPT ![s] = Idle]
       /\ UNCHANGED <<mpesa, commissions, settings, gateway, responses, jobs, monitor, events,
                      cache>>

\* the id the gateway issues for the disbursement of withdrawal w
ConversationID(w) == w

\* admin_mpesa_views.process_mpesa_withdrawal: a b2c MPesaTransaction is created
\* and, when the gateway accepts the request, the withdrawal goes to processing
process_mpesa_withdrawal(w, accepted) ==
    /\ w \in DOMAIN withdrawals
    /\ withdrawals[w].status = "approved"
    /\ Cardinality({m \in DOMAIN mpesa : mpesa[m].transaction_type = "b2c"})
          < MaxDisbursements
    /\ IF accepted
       THEN /\ mpesa' = Append(mpesa, MPesaTransaction(withdrawals[w].user, "b2c",
                                                      ConversationID(w), w, "pending"))
            /\ withdrawals' = [withdrawals EXCEPT ![w].status = "processing"]
       ELSE /\ mpesa' = Append(mpesa, MPesaTransaction(withdrawals[w].user, "b2c",
                                                      0, w, "failed"))
            /\ UNCHANGED withdrawals
    /\ UNCHANGED <<users, transactions, commissions, settings, inflight, gateway,
                   responses, jobs, monitor, events, cache>>

\* custom_admin.views.process_withdrawal: an approved withdrawal is set to
\* processing and the payment sent. When the gateway accepts it the status
\* becomes 'processed' and a second, completed withdrawal Transaction is
\* inserted with the balance as it is; otherwise the status becomes failed and
\* the amount is added back to the balance without a Transaction
process_withdrawal(w, accepted) ==
    LET u == withdrawals[w].user
    IN /\ w \in DOMAIN withdrawals
       /\ withdrawals[w].status = "approved"
       /\ IF accepted
          THEN /\ withdrawals' = [withdrawals EXCEPT ![w].status = "processed"]
               /\ transactions' = Append(transactions,
                      Transaction(u, "withdrawal", 0 - withdrawals[w].amount, "completed",
                                  None, users[u].balance, users[u].balance))
               /\ UNCHANGED users
          ELSE /\ withdrawals' = [withdrawals EXCEPT ![w].status = "failed"]
               /\ users' = [users EXCEPT ![u].balance = @ + withdrawals[w].amount]
               /\ UNCHANGED transactions
       /\ UNCHANGED <<mpesa, commissions, settings, inflight, gateway, responses, jobs,
                      monitor, events, cache>>

\* custom_admin.views.process_mpesa_withdrawal: its import of MPesaService from
\* payments.services fails, and the ImportError branch sets the withdrawal to
\* processing whatever its status was
admin_process_mpesa_withdrawal(w) ==
    /\ w \in DOMAIN withdrawals
    /\ withdrawals[w].status # "processing"
    /\ withdrawals' = [withdrawals EXCEPT ![w].status = "processing"]
    /\ UNCHANGED <<users, transactions, mpesa, commissions, settings, inflight, gateway,
                   responses, jobs, monitor, events, cache>>

\* faulty variant of the update: the matching rows are written anew, which
\* loses the balances recorded at approval
UpdateWithdrawalTransactions_Rewrite(txs, u, amount, status) ==
    [i \in DOMAIN txs |->
        IF /\ txs[i].user = u
           /\ txs[i].transaction_type = "withdrawal"
           /\ txs[i].amount = 0 - amount
           /\ txs[i].status \in {"pending", "processing"}
        THEN Transaction(u, "withdrawal", 0 - amount, status, None, 0, 0) ELSE txs[i]]

\* Transaction.objects.filter(user, 'withdrawal', amount=-amount,
\*                            status__in=[pending, processing]).update(status=...)
UpdateWithdrawalTransactions(txs, u, amount, status) ==
    [i \in DOMAIN txs |->
        IF /\ txs[i].user = u
           /\ txs[i].transaction_type = "withdrawal"
           /\ txs[i].amount = 0 - amount
           /\ txs[i].status \in {"pending", "processing"}
        THEN [txs[i] EXCEPT !.status = status] ELSE txs[i]]

\* MPesaTransaction.objects.get(conversation_id=...)
B2CTransaction(w) ==
    {m \in DOMAIN mpesa : /\ mpesa[m].transaction_type = "b2c"
                          /\ mpesa[m].key = ConversationID(w)}

\* the gateway's report about a disbursement is counted against its deliveries;
\* status_code is what the handler answers at once (0 while it is still running)
Report(w, outcome, status_code) ==
    /\ gateway.b2c[w].delivered < MaxDeliveries
    /\ gateway.b2c[w].outcome \in {"undecided", outcome}
    /\ gateway' = [gateway EXCEPT !.b2c[w] =
                      [outcome |-> outcome, delivered |-> @.delivered + 1,
                       status_code |-> status_code]]

\* faulty variant of the refund: the fee is kept back
RestoredBalance_LessFee(balance, amount) == balance + amount - WithdrawalFee(amount)

\* fail_withdrawal: user.balance += withdrawal.amount
RestoredBalance(balance, amount) == balance + amount

\* WithdrawalService.fail_withdrawal passes its status check on the object it got
CanFail(withdrawal) == withdrawal.status \in {"approved", "processing"}

\* mpesa_b2c_result with ResultCode 0: the intent and the linked withdrawal are
\* set to completed without looking at their present status, and the pending
\* withdrawal Transactions of that amount are completed
mpesa_b2c_result_success(w) ==
    LET m == CHOOSE i \in B2CTransaction(w) : TRUE
        wd == withdrawals[mpesa[m].withdrawal_request]
    IN /\ B2CTransaction(w) # {}
       /\ Report(w, "success", 200)
       /\ mpesa' = [mpesa EXCEPT ![m].status = "completed"]
       /\ withdrawals' = [withdrawals EXCEPT ![mpesa[m].withdrawal_request].status = "completed"]
       /\ transactions' = UpdateWithdrawalTransactions(transactions, wd.user, wd.amount,
                                                       "completed")
       /\ UNCHANGED <<users, commissions, settings, inflight, responses, jobs, monitor, events,
                      cache>>

\* mpesa_b2c_result with another ResultCode, up to the atomic block of
\* fail_withdrawal: the intent and its withdrawal are loaded; when the status
\* check raises, the handler answers 400 and nothing was saved
mpesa_b2c_result_failed(s, w) ==
    LET m == CHOOSE i \in B2CTransaction(w) : TRUE
        wid == mpesa[m].withdrawal_request
    IN /\ FreeSlot(s)
       /\ B2CTransaction(w) # {}
       /\ Report(w, "failed", IF CanFail(withdrawals[wid]) THEN 0 ELSE 400)
       /\ inflight' = IF CanFail(withdrawals[wid])
                      THEN [inflight EXCEPT ![s] =
                               [h |-> "mpesa_b2c_result", pc |-> "checked", w |-> wid,
                                m |-> m, intent |-> [mpesa[m] EXCEPT !.status = "failed"],
                                withdrawal |-> withdrawals[wid]]]
                      ELSE inflight
       /\ UNCHANGED <<users, transactions, mpesa, commissions, withdrawals, settings,
                      responses, jobs, monitor, events, cache>>

\* mpesa_timeout up to the atomic block of fail_withdrawal: the intent is saved
\* as timeout at once, then the withdrawal is loaded and checked
mpesa_timeout(s, w) ==
    LET m == CHOOSE i \in B2CTransaction(w) : TRUE
        wid == mpesa[m].withdrawal_request
    IN /\ FreeSlot(s)
       /\ B2CTransaction(w) # {}
       /\ gateway.b2c[w].delivered < MaxDeliveries
       /\ gateway' = [gateway EXCEPT
                         !.b2c[w].delivered = @ + 1,
                         !.b2c[w].status_code = IF CanFail(withdrawals[wid]) THEN 0 ELSE 400]
       /\ mpesa' = [mpesa EXCEPT ![m].status = "timeout"]
       /\ inflight' = IF CanFail(withdrawals[wid])
                      THEN [inflight EXCEPT ![s] =
                               [h |-> "mpesa_timeout", pc |-> "checked", w |-> wid,
                                m |-> m, intent |-> [mpesa[m] EXCEPT !.status = "timeout"],
                                withdrawal |-> withdrawals[wid]]]
                      ELSE inflight
       /\ UNCHANGED <<users, transactions, commissions, withdrawals, settings,
                      responses, jobs, monitor, events, cache>>

\* fail_withdrawal, first statement of the atomic block: user = withdrawal.user
fail_withdrawal_load(s) ==
    LET r == inflight[s]
    IN /\ r.h \in {"mpesa_b2c_result", "mpesa_timeout"}
       /\ r.pc = "checked"
       /\ inflight' = [inflight EXCEPT ![s] =
                          [h |-> r.h, pc |-> "loaded", w |-> r.w, m |-> r.m,
                           intent |-> r.intent, withdrawal |-> r.withdrawal,
                           row |-> users[r.withdrawal.user]]]
       /\ UNCHANGED <<users, transactions, mpesa, commissions, withdrawals, settings,
                      gateway, responses, jobs, monitor, events, cache>>

\* the writes of fail_withdrawal: the user object is credited and saved, the
\* withdrawal object saved as failed, the open withdrawal Transactions marked
\* failed and a completed refund Transaction inserted; mpesa_b2c_result then
\* saves its intent object
fail_withdrawal(s) ==
    LET r == inflight[s]
        u == r.withdrawal.user
        balance_before == r.row.balance
        balance_after == RestoredBalance(balance_before, r.withdrawal.amount)
    IN /\ r.h \in {"mpesa_b2c_result", "mpesa_timeout"}
       /\ r.pc = "loaded"
       /\ users' = [users EXCEPT ![u] = [r.row EXCEPT !.balance = balance_after]]
       /\ withdrawals' = [withdrawals EXCEPT ![r.w] =
                             [r.withdrawal EXCEPT !.status = "failed"]]
       /\ transactions' = Append(
              UpdateWithdrawalTransactions(transactions, u, r.withdrawal.amount, "failed"),
              Transaction(u, "refund", r.withdrawal.amount, "completed", None,
                          balance_before, balance_after))
       /\ mpesa' = IF r.h = "mpesa_b2c_result"
                   THEN [mpesa EXCEPT ![r.m] = r.intent] ELSE mpesa
       /\ gateway' = [gateway EXCEPT !.b2c[r.intent.key].status_code = 200]
       /\ inflight' = [inflight EXCEPT ![s] = Idle]
       /\ UNCHANGED <<commissions, settings, responses, jobs, monitor, events,
                      cache>>

\* ------------------------------------------------- payment status monitor
\* PaymentStatusConsumer.start_payment_monitoring; debug is settings.DEBUG of the
\* deployment (True in the repository's settings.py)
start_payment_monitoring(debug) ==
    /\ monitor.pc = "idle"
    /\ users[MonitoredUser].registered
    /\ monitor' = IF users[MonitoredUser].registration_paid
                  THEN [pc |-> "success", attempt |-> 0, debug |-> debug]
                  ELSE [pc |-> "monitoring", attempt |-> 0, debug |-> debug]
    /\ UNCHANGED <<users, transactions, mpesa, commissions, withdrawals, settings,
                   inflight, gateway, responses, jobs, events, cache>>

\* the loop with its ceiling off by one: a turn is also taken after the
\* max_attempts-th one
monitor_payment_status_OffByOne(query) ==
    LET u == MonitoredUser
        attempt == monitor.attempt + 1
    IN /\ monitor.pc = "monitoring"
       /\ monitor.attempt <= max_attempts
       /\ IF query = "error"
          THEN /\ monitor' = [monitor EXCEPT !.attempt = attempt]
               /\ UNCHANGED <<users, gateway>>
          ELSE IF users[u].registration_paid
          THEN /\ query = "pending"
               /\ monitor' = [monitor EXCEPT !.pc = "success", !.attempt = attempt]
               /\ UNCHANGED <<users, gateway>>
          ELSE IF monitor.debug
          THEN /\ query = "pending"
               /\ IF attempt > 5 /\ attempt % 10 = 0
                  THEN /\ users' = [users EXCEPT ![u].registration_paid = TRUE,
                                                 ![u].is_active = TRUE]
                       /\ monitor' = [monitor EXCEPT !.pc = "success", !.attempt = attempt]
                  ELSE /\ monitor' = [monitor EXCEPT !.attempt = attempt]
                       /\ UNCHANGED users
               /\ UNCHANGED gateway
          ELSE /\ query = "pending" \/ gateway.stk[u].outcome \in {"undecided", query}
               /\ gateway' = IF query = "pending" THEN gateway
                             ELSE [gateway EXCEPT !.stk[u].outcome = query]
               /\ monitor' = [monitor EXCEPT
                                 !.pc = IF query = "pending" THEN "monitoring" ELSE query,
                                 !.attempt = attempt]
               /\ UNCHANGED users
       /\ UNCHANGED <<transactions, mpesa, commissions, withdrawals, settings, inflight,
                      responses, jobs, events, cache>>

\* one turn of the loop of monitor_payment_status; the turn is counted before
\* anything else. An exception raised in the turn (query "error") is logged and
\* the loop goes on. With DEBUG the 10th, 20th.. turn marks the user paid
\* (complete_development_payment); otherwise check_mpesa_status asks the
\* gateway, whose answer is query, and reports it without saving anything (its
\* update_user_payment_status call is not awaited)
monitor_payment_status(query) ==
    LET u == MonitoredUser
        attempt == monitor.attempt + 1
    IN /\ monitor.pc = "monitoring"
       /\ monitor.attempt < max_attempts
       /\ IF query = "error"
          THEN /\ monitor' = [monitor EXCEPT !.attempt = attempt]
               /\ UNCHANGED <<users, gateway>>
          ELSE IF users[u].registration_paid
          THEN /\ query = "pending"
               /\ monitor' = [monitor EXCEPT !.pc = "success", !.attempt = attempt]
               /\ UNCHANGED <<users, gateway>>
          ELSE IF monitor.debug
          THEN /\ query = "pending"
               /\ IF attempt > 5 /\ attempt % 10 = 0
                  THEN /\ users' = [users EXCEPT ![u].registration_paid = TRUE,
                                                 ![u].is_active = TRUE]
                       /\ monitor' = [monitor EXCEPT !.pc = "success", !.attempt = attempt]
                  ELSE /\ monitor' = [monitor EXCEPT !.attempt = attempt]
                       /\ UNCHANGED users
               /\ UNCHANGED gateway
          ELSE /\ query = "pending" \/ gateway.stk[u].outcome \in {"undecided", query}
               /\ gateway' = IF query = "pending" THEN gateway
                             ELSE [gateway EXCEPT !.stk[u].outcome = query]
               /\ monitor' = [monitor EXCEPT
                                 !.pc = IF query = "pending" THEN "monitoring" ELSE query,
                                 !.attempt = attempt]
               /\ UNCHANGED users
       /\ UNCHANGED <<transactions, mpesa, commissions, withdrawals, settings, inflight,
                      responses, jobs, events, cache>>

\* the loop ran max_attempts turns: send_payment_timeout tells the browser only
send_payment_timeout ==
    /\ monitor.pc = "monitoring"
    /\ monitor.attempt = max_attempts
    /\ monitor' = [monitor EXCEPT !.pc = "timeout"]
    /\ UNCHANGED <<users, transactions, mpesa, commissions, withdrawals, settings,
                   inflight, gateway, responses, jobs, events, cache>>

\* ---------------------------------------------------------- operator jobs
\* ReferralCommission.objects.filter(processed=False).order_by('created_at')
RECURSIVE OldestFirst(_, _)
OldestFirst(cms, i) ==
    IF i > Len(cms) THEN <<>>
    ELSE IF ~cms[i].processed THEN <<i>> \o OldestFirst(cms, i + 1)
         ELSE OldestFirst(cms, i + 1)

\* Command.process_commission, first statements: the commission is marked
\* processed and saved
mark_processed(st, i) ==
    [st EXCEPT !.commissions = [st.commissions EXCEPT ![i].processed = TRUE]]

\* Command.process_commission with --auto-approve: the referrer object that
\* select_related loaded with the queryset (row ref of the snapshot us0) is
\* credited and saved whole, and a completed 'credit' Transaction is inserted
credit_referrer(st, us0, i) ==
    LET c == st.commissions[i]
        ref == c.referrer
        row == [us0[ref] EXCEPT !.balance = @ + c.commission_amount]
    IN [st EXCEPT !.users = [st.users EXCEPT ![ref] = row],
                  !.transactions = Append(st.transactions,
                      Transaction(ref, "credit", c.commission_amount, "completed",
                                  None, 0, 0))]

\* Command.process_commission of process_referral_commissions: the commission is
\* marked processed first; only with --auto-approve the referrer is credited
process_commission(st, us0, i, auto_approve) ==
    IF auto_approve
    THEN credit_referrer(mark_processed(st, i), us0, i)
    ELSE mark_processed(st, i)

RECURSIVE ProcessEach(_, _, _, _)
ProcessEach(st, us0, todo, auto_approve) ==
    IF todo = <<>> THEN st
    ELSE ProcessEach(process_commission(st, us0, Head(todo), auto_approve),
                     us0, Tail(todo), auto_approve)

\* manage.py process_referral_commissions [--auto-approve]
process_referral_commissions(auto_approve) ==
    LET todo == OldestFirst(commissions, 1)
        st == ProcessEach([users |-> users, commissions |-> commissions,
                           transactions |-> transactions], users, todo, auto_approve)
    IN /\ jobs < MaxJobs
       /\ todo # <<>>
       /\ jobs' = jobs + 1
       /\ users' = st.users
       /\ commissions' = st.commissions
       /\ transactions' = st.transactions
       /\ UNCHANGED <<mpesa, withdrawals, settings, inflight, gateway, responses, monitor, events,
                      cache>>

\* the command run statement by statement, as it executes outside any
\* transaction: the queryset is evaluated once, with the referrers' rows
process_referral_commissions_query(s, auto_approve) ==
    /\ FreeSlot(s)
    /\ OldestFirst(commissions, 1) # <<>>
    /\ inflight' = [inflight EXCEPT ![s] =
                      [h |-> "process_referral_commissions", pc |-> "mark",
                       todo |-> OldestFirst(commissions, 1), us0 |-> users,
                       auto_approve |-> auto_approve]]
    /\ UNCHANGED <<users, transactions, mpesa, commissions, withdrawals, settings,
                   gateway, responses, jobs, monitor, events, cache>>

\* commission.save() of the next commission of the run
process_referral_commissions_mark(s) ==
    LET r == inflight[s]
        st == mark_processed([users |-> users, commissions |-> commissions,
                              transactions |-> transactions], Head(r.todo))
    IN /\ r.h = "process_referral_commissions"
       /\ r.pc = "mark"
       /\ commissions' = st.commissions
       /\ inflight' = [inflight EXCEPT ![s] =
                         IF r.auto_approve THEN [r EXCEPT !.pc = "credit"]
                         ELSE IF Tail(r.todo) = <<>> THEN Idle
                         ELSE [r EXCEPT !.todo = Tail(r.todo)]]
       /\ UNCHANGED <<users, transactions, mpesa, withdrawals, settings, gateway,
                      responses, jobs, monitor, events, cache>>

\* referrer.save() and the 'credit' Transaction of the commission just marked
process_referral_commissions_credit(s) ==
    LET r == inflight[s]
        st == credit_referrer([users |-> users, commissions |-> commissions,
                               transactions |-> transactions], r.us0, Head(r.todo))
    IN /\ r.h = "process_referral_commissions"
       /\ r.pc = "credit"
       /\ users' = st.users
       /\ transactions' = st.transactions
       /\ inflight' = [inflight EXCEPT ![s] =
                         IF Tail(r.todo) = <<>> THEN Idle
                         ELSE [r EXCEPT !.todo = Tail(r.todo), !.pc = "mark"]]
       /\ UNCHANGED <<mpesa, commissions, withdrawals, settings, gateway, responses,
                      jobs, monitor, events, cache>>

\* one turn of the loop of reverse_admin_commissions(dry_run=False): the referrer
\* is loaded, debited without a balance check and saved, a 'correction'
\* Transaction is inserted and the commission goes back to unprocessed
ReverseCommission(st, i) ==
    LET c == st.commissions[i]
        ref == c.referrer
        bal == st.users[ref].balance - c.commission_amount
    IN [users |-> [st.users EXCEPT ![ref].balance = bal,
                                   ![ref].referral_earnings = @ - c.commission_amount],
        commissions |-> [st.commissions EXCEPT ![i].processed = FALSE],
        transactions |-> Append(st.transactions,
            Transaction(ref, "correction", 0 - c.commission_amount, "pending", None, 0, bal))]

\* the processed commissions whose referrer is staff, in the model's ordering
\* -created_at
RECURSIVE AdminCommissions(_, _, _)
AdminCommissions(cms, us, i) ==
    IF i = 0 THEN <<>>
    ELSE IF us[cms[i].referrer].is_staff /\ cms[i].processed
         THEN <<i>> \o AdminCommissions(cms, us, i - 1)
         ELSE AdminCommissions(cms, us, i - 1)

RECURSIVE ReverseEach(_, _)
ReverseEach(st, todo) ==
    IF todo = <<>> THEN st
    ELSE ReverseEach(ReverseCommission(st, Head(todo)), Tail(todo))

\* ReferralService.reverse_admin_commissions(dry_run=False)
reverse_admin_commissions ==
    LET todo == AdminCommissions(commissions, users, Len(commissions))
        st == ReverseEach([users |-> users, commissions |-> commissions,
                           transactions |-> transactions], todo)
    IN /\ jobs < MaxJobs
       /\ todo # <<>>
       /\ jobs' = jobs + 1
       /\ users' = st.users
       /\ commissions' = st.commissions
       /\ transactions' = st.transactions
       /\ UNCHANGED <<mpesa, withdrawals, settings, inflight, gateway, responses, monitor, events,
                      cache>>

NextReg ==
    \/ \E u \in Registrants, ref \in {None, Referrer} : user_register(u, ref)
    \/ \E s \in Slots, u \in Registrants, res \in {"success", "failed"} :
          mpesa_callback_receive(s, u, res)
    \/ \E s \in Slots : mpesa_callback_success(s)
    \/ \E s \in Slots : mpesa_callback_failed(s)
    \/ \E u \in Registrants, res \in {"success", "failed"} : payments_mpesa_callback(u, res)
    \/ \E rate \in Rates, auto \in BOOLEAN : set_setting(rate, auto)
    \/ grant_staff(Referrer)
    \/ \E auto \in BOOLEAN : process_referral_commissions(auto)
    \/ reverse_admin_commissions

SpecReg == Init /\ [][NextReg]_vars

\* X1 registers under Y; the commission is settled by the callback or by command
\* runs that interleave with the callback and the reversal job
NextSettle ==
    \/ user_register("X1", Referrer)
    \/ \E s \in Slots : mpesa_callback_receive(s, "X1", "success")
    \/ \E s \in Slots : mpesa_callback_success(s)
    \/ \E auto \in BOOLEAN : set_setting(25, auto)
    \/ grant_staff(Referrer)
    \/ \E s \in Slots, auto \in BOOLEAN : process_referral_commissions_query(s, auto)
    \/ \E s \in Slots : process_referral_commissions_mark(s)
    \/ \E s \in Slots : process_referral_commissions_credit(s)
    \/ reverse_admin_commissions

SpecSettle == Init /\ [][NextSettle]_vars

\* Y earns by surveys and withdraws; the gateway reports on the disbursements
NextWd ==
    \/ \E p \in SurveyPayouts : process_survey_completion_payment(Referrer, p)
    \/ \E a \in WithdrawalAmounts : create_withdrawal_request(Referrer, a)
    \/ \E w \in WithdrawalIds : cancel_withdrawal(w)
    \/ \E w \in WithdrawalIds : reject_withdrawal(w)
    \/ \E s \in Slots, w \in WithdrawalIds : approve_withdrawal_check(s, w)
    \/ \E s \in Slots : approve_withdrawal(s)
    \/ \E w \in WithdrawalIds, accepted \in BOOLEAN : process_mpesa_withdrawal(w, accepted)
    \/ \E w \in WithdrawalIds : mpesa_b2c_result_success(w)
    \/ \E s \in Slots, w \in WithdrawalIds : mpesa_b2c_result_failed(s, w)
    \/ \E s \in Slots, w \in WithdrawalIds : mpesa_timeout(s, w)
    \/ \E s \in Slots : fail_withdrawal_load(s)
    \/ \E s \in Slots : fail_withdrawal(s)

SpecWd == Init /\ [][NextWd]_vars

\* Y earns by surveys and asks for withdrawals of any amount; requests are
\* cancelled, rejected or approved
NextRequest ==
    \/ \E p \in SurveyPayouts : process_survey_completion_payment(Referrer, p)
    \/ \E a \in RequestedAmounts : create_withdrawal_request(Referrer, a)
    \/ \E w \in WithdrawalIds : cancel_withdrawal(w)
    \/ \E w \in WithdrawalIds : reject_withdrawal(w)
    \/ \E s \in Slots, w \in WithdrawalIds : approve_withdrawal_check(s, w)
    \/ \E s \in Slots : approve_withdrawal(s)

SpecRequest == Init /\ [][NextRequest]_vars

\* Y earns by surveys and withdraws; operators work the requests through the
\* admin views and the gateway reports success
NextAdmin ==
    \/ \E p \in SurveyPayouts : process_survey_completion_payment(Referrer, p)
    \/ \E a \in WithdrawalAmounts : create_withdrawal_request(Referrer, a)
    \/ \E w \in WithdrawalIds : cancel_withdrawal(w)
    \/ \E w \in WithdrawalIds : reject_withdrawal(w)
    \/ \E s \in Slots, w \in WithdrawalIds : approve_withdrawal_check(s, w)
    \/ \E s \in Slots : approve_withdrawal(s)
    \/ \E w \in WithdrawalIds, accepted \in BOOLEAN : process_mpesa_withdrawal(w, accepted)
    \/ \E w \in WithdrawalIds, accepted \in BOOLEAN : process_withdrawal(w, accepted)
    \/ \E w \in WithdrawalIds : admin_process_mpesa_withdrawal(w)
    \/ \E w \in WithdrawalIds : mpesa_b2c_result_success(w)

SpecAdmin == Init /\ [][NextAdmin]_vars

\* Y earns the commissions on the registrations of X1 and X2, settled inside the
\* callback, while a withdrawal of Y is being approved
NextLedger ==
    \/ \E u \in Registrants : user_register(u, Referrer)
    \/ \E s \in Slots, u \in Registrants : mpesa_callback_receive(s, u, "success")
    \/ \E s \in Slots : mpesa_callback_success(s)
    \/ \E a \in WithdrawalAmounts : create_withdrawal_request(Referrer, a)
    \/ \E s \in Slots, w \in WithdrawalIds : approve_withdrawal_check(s, w)
    \/ \E s \in Slots : approve_withdrawal(s)

SpecLedger == Init /\ [][NextLedger]_vars

\* X1 registers and watches the payment page; the gateway never calls back
NextMonitor ==
    \/ \E ref \in {None, Referrer} : user_register(MonitoredUser, ref)
    \/ \E debug \in BOOLEAN : start_payment_monitoring(debug)
    \/ \E query \in {"pending", "success", "failed", "error"} :
           monitor_payment_status(query)
    \/ send_payment_timeout

SpecMonitor == Init /\ [][NextMonitor]_vars

\* the monitoring task is an asyncio task of the consumer: the event loop
\* resumes it after each asyncio.sleep(3), so a turn that can run does run
SpecMonitorLive ==
    /\ Init /\ [][NextMonitor]_vars
    /\ WF_vars(\E query \in {"pending", "success", "failed", "error"} :
                   monitor_payment_status(query))
    /\ WF_vars(send_payment_timeout)

\* X1 registers and its payment is confirmed by the callback, by the poll of the
\* payment page or by the monitor of its websocket
NextConfirm ==
    \/ \E ref \in {None, Referrer} : user_register(MonitoredUser, ref)
    \/ \E s \in Slots, res \in {"success", "failed"} :
          mpesa_callback_receive(s, MonitoredUser, res)
    \/ \E s \in Slots : mpesa_callback_success(s)
    \/ \E s \in Slots : mpesa_callback_failed(s)
    \/ \E query \in {"success", "failed"} : check_payment_status(MonitoredUser, query)
    \/ \E debug \in BOOLEAN : start_payment_monitoring(debug)
    \/ \E query \in {"pending", "success", "failed", "error"} :
           monitor_payment_status(query)
    \/ send_payment_timeout
    \/ grant_staff(Referrer)

SpecConfirm == Init /\ [][NextConfirm]_vars

\* the completed survey responses of Y
ResponseIds == {"R1", "R2"}

\* the payment service is called for Y's completed responses, also again and
\* by two callers at once
NextSurvey ==
    \/ \E s \in Slots, r \in ResponseIds, p \in SurveyPayouts :
          process_survey_completion_payment_check(s, Referrer, r, p)
    \/ \E s \in Slots : process_survey_completion_payment_commit(s)
    \/ \E s \in Slots : process_survey_completion_payment_refuse(s)

SpecSurvey == Init /\ [][NextSurvey]_vars

\* the operator changes the commission rate while requests read it
NextSettings ==
    \/ \E s \in Slots, rate \in Rates : set_setting_save(s, rate)
    \/ \E s \in Slots : set_setting_cache_delete(s)
    \/ \E s \in Slots : get_setting_cache_get(s)
    \/ \E s \in Slots : get_setting_db_read(s)
    \/ \E s \in Slots : get_setting_cache_set(s)
    \/ \E s \in Slots : get_setting_return(s)
    \/ cache_timeout

SpecSettings == Init /\ [][NextSettings]_vars

\* every operation of the engine
Next ==
    \/ NextReg \/ NextSettle \/ NextWd \/ NextRequest \/ NextAdmin \/ NextLedger
    \/ NextMonitor \/ NextConfirm \/ NextSurvey \/ NextSettings

Spec == Init /\ [][Next]_vars

\* ------------------------------------------------------------------ claims
RegistrationEntries(u) ==
    {i \in DOMAIN transactions : /\ transactions[i].user = u
                                 /\ transactions[i].transaction_type = "registration"}

RegistrationCommissions(referrer, u) ==
    {i \in DOMAIN commissions : /\ commissions[i].referrer = referrer
                                /\ commissions[i].referred_user = u
                                /\ commissions[i].commission_type = "registration"}

\* C1: however often the successful registration callback of one checkout id is
\* delivered, the account has exactly one registration Transaction and at most
\* one registration commission
C1_OneRegistrationEntry ==
    \A u \in Registrants :
        users[u].registered =>
            /\ Cardinality(RegistrationEntries(u)) = 1
            /\ Cardinality(RegistrationCommissions(users[u].referred_by, u)) <= 1

\* C3: no account's balance is ever below zero
C3_NoNegativeBalance == \A u \in Users : users[u].balance >= 0

\* C5: for every (referrer, referred account) pair at most one registration
\* commission exists, however many callback deliveries were processed
C5_CommissionExclusive ==
    \A r \in Users, u \in Registrants : Cardinality(RegistrationCommissions(r, u)) <= 1

\* the callback was handled twice for a referred registrant and one commission exists
C5_Witness ==
    \E u \in Registrants :
        /\ gateway.stk[u] = [outcome |-> "success", delivered |-> MaxDeliveries]
        /\ \A s \in Slots : inflight[s] = Idle
        /\ Cardinality(RegistrationEntries(u)) >= 2
        /\ Cardinality(RegistrationCommissions(Referrer, u)) = 1

StaffReferred(u) ==
    /\ users[u].referred_by # None
    /\ users[users[u].referred_by].is_staff

\* C6: when the referrer of an account is staff, create_registration_commission,
\* create_survey_commission and the callback's commission step return no
\* commission and leave the commissions and every user row (so the referrer's
\* referral_earnings and balance) as they were
C6_StaffExclusion ==
    \A u \in Registrants :
        StaffReferred(u) =>
            /\ create_registration_commission(users, commissions, u)
                   = [users |-> users, commissions |-> commissions, commission |-> FALSE]
            /\ \A p \in SurveyPayouts :
                   create_survey_commission(users, commissions, u, p)
                       = [users |-> users, commissions |-> commissions, commission |-> FALSE]
            /\ CallbackCommissionStep(users, commissions, transactions, u)
                   = [users |-> users, commissions |-> commissions,
                      transactions |-> transactions]

\* a registrant referred by a staff account was confirmed by the callback and
\* no commission was written for it
C6_Witness ==
    \E u \in Registrants :
        /\ StaffReferred(u)
        /\ users[u].registration_paid
        /\ RegistrationCommissions(users[u].referred_by, u) = {}
        /\ users[users[u].referred_by].referral_earnings = 0

C7_Step(s) ==
    LET u == inflight[s].user
        ref == users[u].referred_by
        amount == CommissionAmount(get_registration_fee, get_referral_commission_rate)
        n == Len(commissions)
    IN (/\ mpesa_callback_success(s)
        /\ ref # None
        /\ ~users[ref].is_staff
        /\ ~ExistingRegistrationCommission(commissions, ref, u))
       => /\ Len(commissions') = n + 1
          /\ commissions'[n + 1].referrer = ref
          /\ commissions'[n + 1].referred_user = u
          /\ commissions'[n + 1].commission_amount = amount
          /\ IF auto_approve_referral_commissions
             THEN users'[ref].balance = users[ref].balance + amount
             ELSE /\ users'[ref].balance = users[ref].balance
                  /\ ~commissions'[n + 1].processed

\* C7: when the callback completes the registration of an account referred by a
\* non-staff account Y, a commission of registration fee * current rate is
\* created for Y; with auto-approve off Y's balance is unchanged and the
\* commission unsettled, with auto-approve on Y's balance rises by exactly that
\* amount, whatever Y's state was before
C7_ScenarioA == [][\A s \in Slots : C7_Step(s)]_vars

\* C2: the amounts of all Transactions of an account add up to its balance, also
\* when a commission is settled while a withdrawal of the account is being
\* approved; stated for the referrer, the account both operations write
C2_LedgerMatchesBalance ==
    SumAmounts(transactions, Referrer) = users[Referrer].balance

\* C4: a failure report refunds a withdrawal only once: the refund of
\* fail_withdrawal (credit and refund Transaction) is never applied to a
\* withdrawal that is already failed
C4_RefundOnce ==
    [][\A s \in Slots :
          fail_withdrawal(s) => withdrawals[inflight[s].w].status # "failed"]_vars

\* the request's objects are as the database has them: nothing ran in between
Sequential(s) ==
    /\ inflight[s].withdrawal = withdrawals[inflight[s].w]
    /\ inflight[s].row = users[inflight[s].withdrawal.user]

C8_Step(s) ==
    LET w == inflight[s].w
        u == withdrawals[w].user
    IN /\ (approve_withdrawal(s) /\ Sequential(s))
          => /\ users'[u].balance = users[u].balance - withdrawals[w].amount
             /\ withdrawals'[w] = [withdrawals[w] EXCEPT !.status = "approved"]
       /\ (fail_withdrawal(s) /\ Sequential(s))
          => /\ users'[u].balance = users[u].balance + withdrawals[w].amount
             /\ withdrawals'[w] = [withdrawals[w] EXCEPT !.status = "failed"]

C9_PendingTimesOut ==
    monitor.pc = "timeout" =>
        /\ \A m \in DOMAIN mpesa :
              mpesa[m].user = MonitoredUser => mpesa[m].status = "timeout"
        /\ ~users[MonitoredUser].registration_paid

Terminal(status) == status \in {"completed", "failed", "timeout"}

\* C10: a MPesaTransaction in a terminal status keeps that status under every
\* later callback or timeout notification
C10_TerminalIsFinal ==
    [][\A m \in DOMAIN mpesa :
          Terminal(mpesa[m].status) => mpesa'[m].status = mpesa[m].status]_vars

\* C11: a withdrawal's status is always one of the seven states of the model
\* and changes only along pending->approved, approved->processing,
\* processing->completed, pending->rejected, pending->cancelled,
\* approved->failed and processing->failed; a request that is completed,
\* failed, rejected or cancelled never changes status again
WithdrawalStates ==
    {"pending", "approved", "processing", "completed", "rejected", "cancelled", "failed"}

AllowedTransitions ==
    { <<"pending", "approved">>, <<"approved", "processing">>,
      <<"processing", "completed">>, <<"pending", "rejected">>,
      <<"pending", "cancelled">>, <<"approved", "failed">>,
      <<"processing", "failed">> }

C11_Step ==
    \A w \in DOMAIN withdrawals :
        /\ w \in DOMAIN withdrawals'
        /\ withdrawals'[w].status \in WithdrawalStates
        /\ withdrawals'[w].status # withdrawals[w].status
              => <<withdrawals[w].status, withdrawals'[w].status>> \in AllowedTransitions

C11_StatusMachine == [][C11_Step]_vars

\* the step is a commit of approve_withdrawal: a debit row of type withdrawal
\* is appended to the ledger
IsApprovalDebit ==
    /\ Len(transactions') = Len(transactions) + 1
    /\ transactions'[Len(transactions')].transaction_type = "withdrawal"
    /\ transactions'[Len(transactions')].amount < 0

\* the statuses of a request whose amount has been debited by an approval
Debited == {"approved", "processing", "completed", "failed"}

\* C12: every approval debits a request that has not been debited before and
\* an account whose balance covers the amount, under any interleaving of
\* approve calls: no request is debited twice and two requests that together
\* exceed the balance are never both approved
C12_Step ==
    IsApprovalDebit =>
        \E w \in DOMAIN withdrawals :
            /\ withdrawals[w].status \notin Debited
            /\ withdrawals'[w].status = "approved"
            /\ withdrawals[w].amount = 0 - transactions'[Len(transactions')].amount
            /\ users[withdrawals[w].user].balance >= withdrawals[w].amount

C12_NoDoubleApproval == [][C12_Step]_vars

\* the withdrawal the disbursement with ConversationID w pays
DisbursedWithdrawal(w) ==
    mpesa[CHOOSE i \in B2CTransaction(w) : TRUE].withdrawal_request

\* C13: no withdrawal is both paid out and refunded: a success result never
\* completes a withdrawal that a timeout has failed and refunded, and the refund
\* of fail_withdrawal is never applied to a withdrawal the gateway paid out
C13_Step ==
    /\ \A w \in WithdrawalIds :
          mpesa_b2c_result_success(w)
              => withdrawals[DisbursedWithdrawal(w)].status # "failed"
    /\ \A s \in Slots :
          fail_withdrawal(s)
              => gateway.b2c[inflight[s].intent.key].outcome # "success"

C13_PaidOrRefunded == [][C13_Step]_vars

\* C14: the monitored registrant's account is marked registration-paid only when
\* the gateway reported success for the registrant's STK push
C14_PaidOnlyOnSuccess ==
    users[MonitoredUser].registration_paid
        => gateway.stk[MonitoredUser].outcome = "success"

\* status, balances and ledger are as they were before the step
WithdrawalStateUnchanged ==
    /\ withdrawals' = withdrawals
    /\ users' = users
    /\ transactions' = transactions

\* C15: a withdrawal operation applied to a request whose status does not allow
\* it changes neither status nor balance nor ledger: an approval commits only on
\* a pending request, a completion by the result callback and a failure only on
\* an approved or processing one
C15_Step ==
    /\ \A s \in Slots :
          (approve_withdrawal(s) /\ withdrawals[inflight[s].w].status # "pending")
              => WithdrawalStateUnchanged
    /\ \A w \in WithdrawalIds :
          (mpesa_b2c_result_success(w) /\ ~CanFail(withdrawals[DisbursedWithdrawal(w)]))
              => WithdrawalStateUnchanged
    /\ \A s \in Slots :
          (fail_withdrawal(s) /\ ~CanFail(withdrawals[inflight[s].w]))
              => WithdrawalStateUnchanged

C15_DisallowedRejected == [][C15_Step]_vars

RECURSIVE CommissionTotal(_, _)
CommissionTotal(cms, referrer) ==
    IF cms = <<>> THEN 0
    ELSE (IF Head(cms).referrer = referrer THEN Head(cms).commission_amount ELSE 0)
         + CommissionTotal(Tail(cms), referrer)

\* C16: however often and however interleaved settlement runs, each commission
\* is credited to the referrer's balance at most once: the balance of the
\* referrer, whose only income is commissions, never exceeds the sum of the
\* referrer's commissions
C16_CreditedOnce ==
    users[Referrer].balance <= CommissionTotal(commissions, Referrer)

\* the ledger rows that credit a commission of that amount to referrer: those
\* of process_pending_commissions and those of the command
CommissionCredits(referrer, amount) ==
    {i \in DOMAIN transactions :
        /\ transactions[i].user = referrer
        /\ transactions[i].amount = amount
        /\ transactions[i].transaction_type \in {"referral_commission", "credit"}}

\* C17: a commission is marked processed only when its amount was credited to
\* the referrer together with a commission entry in the ledger
C17_ProcessedIsCredited ==
    \A i \in DOMAIN commissions :
        commissions[i].processed
            => CommissionCredits(commissions[i].referrer,
                                 commissions[i].commission_amount) # {}

\* C18: every Transaction written by an operation that changes a balance records
\* balance_after = balance_before + amount; the registration rows, which move no
\* balance, are left out
C18_BalanceArithmetic ==
    \A i \in DOMAIN transactions :
        transactions[i].transaction_type # "registration"
            => transactions[i].balance_after
                   = transactions[i].balance_before + transactions[i].amount

\* C19 as stated: the ledger is append-only: every Transaction row that exists
\* stays in place with every field as it was written
C19_Step ==
    \A i \in DOMAIN transactions :
        /\ i \in DOMAIN transactions'
        /\ transactions'[i] = transactions[i]

C19_AmendedStep ==
    \A i \in DOMAIN transactions :
        /\ i \in DOMAIN transactions'
        /\ [transactions'[i] EXCEPT !.status = transactions[i].status] = transactions[i]

C20_WebhookAnswers2xx ==
    \A w \in WithdrawalIds : gateway.b2c[w].status_code \in {0, 200}

\* the step adds a refund Transaction of that amount for the user
RefundAppended(u, amount) ==
    /\ Len(transactions') = Len(transactions) + 1
    /\ transactions'[Len(transactions')].user = u
    /\ transactions'[Len(transactions')].transaction_type = "refund"
    /\ transactions'[Len(transactions')].amount = amount

\* C21: when the gateway rejects the disbursement request of an approved
\* withdrawal, the withdrawal becomes failed and the amount reserved at approval
\* goes back to the balance together with a refund Transaction
C21_Step ==
    \A w \in DOMAIN withdrawals :
        (process_mpesa_withdrawal(w, FALSE) \/ process_withdrawal(w, FALSE))
            => /\ withdrawals'[w].status = "failed"
               /\ users'[withdrawals[w].user].balance
                     = users[withdrawals[w].user].balance + withdrawals[w].amount
               /\ RefundAppended(withdrawals[w].user, withdrawals[w].amount)

C21_RejectedIsRefunded == [][C21_Step]_vars

\* C22: a step that adds a withdrawal request adds a pending one whose amount
\* lies within the limits and is covered, with the fee, by the balance, and a
\* step that sets a request to rejected or cancelled changes that status only;
\* none of these steps touches a balance or the ledger
C22_Step ==
    /\ Len(withdrawals') > Len(withdrawals)
          => LET n == Len(withdrawals')
                 new == withdrawals'[n]
             IN /\ n = Len(withdrawals) + 1
                /\ withdrawals' = Append(withdrawals, new)
                /\ new.status = "pending"
                /\ new.amount >= MIN_WITHDRAWAL
                /\ new.amount <= MAX_WITHDRAWAL
                /\ users[new.user].balance >= new.amount + WithdrawalFee(new.amount)
                /\ users' = users
                /\ transactions' = transactions
    /\ \A w \in DOMAIN withdrawals :
          (/\ withdrawals'[w].status \in {"rejected", "cancelled"}
           /\ withdrawals'[w].status # withdrawals[w].status)
              => /\ withdrawals' = [withdrawals EXCEPT ![w].status = withdrawals'[w].status]
                 /\ withdrawals[w].status = "pending"
                 /\ users' = users
                 /\ transactions' = transactions

C22_FrameOfRequests == [][C22_Step]_vars

\* with a balance of 120 one request was cancelled or rejected and another one
\* of 60 is pending; the ledger holds the two survey payments only
C22_Witness ==
    /\ users[Referrer].balance = 120
    /\ Len(transactions) = 2
    /\ \E v, w \in DOMAIN withdrawals :
          /\ withdrawals[v].status \in {"rejected", "cancelled"}
          /\ withdrawals[w].status = "pending"
          /\ withdrawals[w].amount = 60

\* the stored amounts of the referrer's commissions that the step settles
RECURSIVE NewlySettledTotal(_, _)
NewlySettledTotal(referrer, i) ==
    IF i = 0 THEN 0
    ELSE (IF /\ commissions'[i].referrer = referrer
             /\ commissions'[i].processed
             /\ (i \in DOMAIN commissions => ~commissions[i].processed)
          THEN commissions'[i].commission_amount ELSE 0)
         + NewlySettledTotal(referrer, i - 1)

\* the amounts of the referral_commission Transactions the step writes for referrer
RECURSIVE NewCreditTotal(_, _)
NewCreditTotal(referrer, i) ==
    IF i <= Len(transactions) THEN 0
    ELSE (IF /\ transactions'[i].user = referrer
             /\ transactions'[i].transaction_type = "referral_commission"
          THEN transactions'[i].amount ELSE 0)
         + NewCreditTotal(referrer, i - 1)

\* C23: a commission is stored with the amount fee times the rate in force when
\* it is created, the stored amount never changes, and a settlement by
\* process_pending_commissions credits exactly the stored amounts to the balance
\* and to the ledger, whatever the rate is when it runs
C23_Step ==
    /\ \A i \in DOMAIN commissions :
          /\ i \in DOMAIN commissions'
          /\ commissions'[i].commission_amount = commissions[i].commission_amount
    /\ \A i \in DOMAIN commissions' \ DOMAIN commissions :
          commissions'[i].commission_amount
              = CommissionAmount(users'[commissions'[i].referred_user].registration_amount,
                                 settings.referral_commission_rate)
    /\ NewCreditTotal(Referrer, Len(transactions')) > 0
          => /\ NewCreditTotal(Referrer, Len(transactions'))
                   = NewlySettledTotal(Referrer, Len(commissions'))
             /\ users'[Referrer].balance
                   = users[Referrer].balance + NewlySettledTotal(Referrer, Len(commissions'))

C23_StoredAmountCredited == [][C23_Step]_vars

\* the commission of 125 created at rate 25 was settled, after the one of 50
\* created at rate 10, by the callback that created the latter
C23_Witness ==
    /\ users[Referrer].balance = 175
    /\ \E i \in DOMAIN transactions :
          /\ i < Len(transactions)
          /\ transactions[i].transaction_type = "referral_commission"
          /\ transactions[i].amount = 50
          /\ transactions[i + 1].transaction_type = "referral_commission"
          /\ transactions[i + 1].amount = 125
    /\ \A i \in DOMAIN commissions : commissions[i].processed

\* ------------------------------------------------------------------ C24
\* the account's group of PaymentStatusConsumer (payment_<user id>) holds a
\* payment_update message carrying the given final status
Notified(evs, u, status) ==
    \E e \in evs : /\ e.group = <<"payment", u>>
                   /\ e.type = "payment_update"
                   /\ e.status = status

\* C24: every gateway callback matched to a known payment intent publishes the
\* final state (success or failed) to the group the account's live clients have
\* joined, with a message type they handle, for collections and disbursements
C24_Step ==
    /\ \A s \in Slots :
          /\ mpesa_callback_success(s) => Notified(events', inflight[s].user, "success")
          /\ mpesa_callback_failed(s) => Notified(events', inflight[s].user, "failed")
          /\ fail_withdrawal(s) =>
                 Notified(events', inflight[s].withdrawal.user, "failed")
    /\ \A u \in Registrants :
          /\ payments_mpesa_callback(u, "success") => Notified(events', u, "success")
          /\ payments_mpesa_callback(u, "failed") => Notified(events', u, "failed")
    /\ \A w \in WithdrawalIds :
          mpesa_b2c_result_success(w) =>
              \A m \in B2CTransaction(w) :
                  Notified(events', withdrawals[mpesa[m].withdrawal_request].user,
                           "success")

C24_CallbacksNotify == [][C24_Step]_vars

\* ------------------------------------------------------------------ C25
\* the terminal messages of the loop: payment_success, payment_failed and
\* payment_timeout
TerminalMessages == {"success", "failed", "timeout"}

C26_NoStaleCache ==
    (\A s \in Slots : inflight[s].h # "set_setting")
        => cache \subseteq {settings.referral_commission_rate}

\* ------------------------------------------------------------------ C27
\* the completed registration Transactions of an account
CompletedRegistration(u) ==
    {i \in DOMAIN transactions : /\ transactions[i].user = u
                                 /\ transactions[i].transaction_type = "registration"
                                 /\ transactions[i].status = "completed"}

\* C27: whichever path confirmed the payment (callback, status poll, websocket
\* monitor), an account marked registration-paid whose referrer is not staff has
\* a completed registration Transaction and a registration commission
C27_PaidIsComplete ==
    \A u \in Registrants :
        (/\ users[u].registration_paid
         /\ users[u].referred_by = Referrer
         /\ ~users[Referrer].is_staff)
            => /\ CompletedRegistration(u) # {}
               /\ RegistrationCommissions(Referrer, u) # {}

\* ------------------------------------------------------------------ C28
\* Sum('amount') over the completed Transactions of u with a type in types
RECURSIVE CompletedTotal(_, _, _)
CompletedTotal(rows, u, types) ==
    IF rows = <<>> THEN 0
    ELSE (IF /\ Head(rows).user = u
             /\ Head(rows).status = "completed"
             /\ Head(rows).transaction_type \in types
          THEN Head(rows).amount ELSE 0)
         + CompletedTotal(Tail(rows), u, types)

abs(n) == IF n < 0 THEN 0 - n ELSE n

\* the balance sync_user_fields writes: completed income minus completed
\* withdrawals, never below zero
sync_user_fields(rows, u) ==
    LET positive_transactions ==
            CompletedTotal(rows, u, {"survey_payment", "bonus", "referral_commission"})
        withdrawn == CompletedTotal(rows, u, {"withdrawal"})
        recomputed == positive_transactions - abs(withdrawn)
    IN IF recomputed < 0 THEN 0 ELSE recomputed

\* the balance update_user_financial_fields writes: fees count as withdrawals
update_user_financial_fields(rows, u) ==
    LET positive_transactions ==
            CompletedTotal(rows, u, {"survey_payment", "bonus", "referral_commission"})
        negative_transactions == CompletedTotal(rows, u, {"withdrawal", "fee"})
        recomputed == positive_transactions - abs(negative_transactions)
    IN IF recomputed < 0 THEN 0 ELSE recomputed

\* C28: in every state reached through survey payments, commission settlement
\* and withdrawal approval, failure and completion, the balance recomputed from
\* the completed ledger entries is the stored balance of each account
C28_RecomputationIsIdentity ==
    \A u \in Users :
        /\ sync_user_fields(transactions, u) = users[u].balance
        /\ update_user_financial_fields(transactions, u) = users[u].balance

\* ------------------------------------------------------------------ C29
\* commission i has been reversed: its 'correction' Transaction is in the ledger
ReversedCommission(i) ==
    \E t \in DOMAIN transactions :
        /\ transactions[t].transaction_type = "correction"
        /\ transactions[t].user = commissions[i].referrer
        /\ transactions[t].amount = 0 - commissions[i].commission_amount

\* C29: a commission reversed by reverse_admin_commissions(dry_run=False) is not
\* settled again: no later step of a settlement run marks it processed or
\* raises its referrer's balance (the commission is the referrer's only income)
C29_Step ==
    \A i \in DOMAIN commissions :
        ReversedCommission(i) =>
            /\ commissions'[i].processed => commissions[i].processed
            /\ users'[commissions[i].referrer].balance
                   <= users[commissions[i].referrer].balance

C29_ReversedStaysReversed == [][C29_Step]_vars

\* ------------------------------------------------------------------ C30
\* the responses of u that have a completed survey_payment Transaction
PaidResponses(u) == {r \in ResponseIds : existing_payment(transactions, u, r) # {}}

\* C30: however the calls of process_survey_completion_payment for one completed
\* response overlap, the ledger holds at most one completed survey_payment
\* Transaction for it and the balance holds its payout at most once
C30_PaidOnce ==
    /\ \A r \in ResponseIds :
          Cardinality(existing_payment(transactions, Referrer, r)) <= 1
    /\ \A p \in SurveyPayouts :
          users[Referrer].balance <= p * Cardinality(PaidResponses(Referrer))

====
